---- MODULE Spec2Model ----
(***************************************************************************)
(* Model of utils/serializers.py: Field.to_internal_value and              *)
(* BaseSerializer (__init__, _collect_fields, is_valid).                   *)
(*                                                                         *)
(* Python values are records [k, n, t, s]: k is the Python type, n the     *)
(* numeric payload, t the time of day in seconds (datetime only) and s the *)
(* text of a str as a sequence of tokens (digit runs and the literal       *)
(* characters between them), so that strptime has something to parse.      *)
(* A float carries its value in halves (n = 9 is 4.5), which is enough to  *)
(* tell 4.0 from 4.5.  "bigint" is a Python int beyond the range of a      *)
(* float (10**400): type(v) is int holds for it, float(v) overflows.       *)
(***************************************************************************)
EXTENDS Integers, Sequences, FiniteSets, TLC

VARIABLES fieldObjs, classes, sess, probe

vars == <<fieldObjs, classes, sess, probe>>

-----------------------------------------------------------------------------
(* Python values *)

NoneV == [k |-> "none", n |-> 0, t |-> 0, s |-> <<>>]
StrV(toks) == [k |-> "str", n |-> 0, t |-> 0, s |-> toks]
IntV(i) == [k |-> "int", n |-> i, t |-> 0, s |-> <<>>]
BigIntV == [k |-> "bigint", n |-> 0, t |-> 0, s |-> <<>>]
FloatV(halves) == [k |-> "float", n |-> halves, t |-> 0, s |-> <<>>]
BoolV(b) == [k |-> "bool", n |-> IF b THEN 1 ELSE 0, t |-> 0, s |-> <<>>]
ListV == [k |-> "list", n |-> 0, t |-> 0, s |-> <<>>]
DictV == [k |-> "dict", n |-> 0, t |-> 0, s |-> <<>>]
DateV(code) == [k |-> "date", n |-> code, t |-> 0, s |-> <<>>]
DatetimeV(code, secs) == [k |-> "datetime", n |-> code, t |-> secs, s |-> <<>>]

(* isinstance / type tests as the code writes them; bool is a subclass of   *)
(* int and datetime a subclass of date.                                     *)
IsInstanceInt(v) == v.k \in {"int", "bigint", "bool"}
TypeIsInt(v) == v.k \in {"int", "bigint"}
IsInstanceFloat(v) == v.k = "float"
IsInstanceBool(v) == v.k = "bool"
IsInstanceStr(v) == v.k = "str"
IsInstanceList(v) == v.k = "list"
IsInstanceDict(v) == v.k = "dict"
IsInstanceDate(v) == v.k \in {"date", "datetime"}
IsInstanceDatetime(v) == v.k = "datetime"

(* Outcome of a call: a returned value or a raised exception. *)
Return(v) == [st |-> "return", val |-> v, msg |-> <<>>]
Raise(exc, m) == [st |-> exc, val |-> NoneV, msg |-> m]

-----------------------------------------------------------------------------
(* Text: the digit runs the model's strings are made of, and their values. *)

Digits ==
    { <<"00", 0>>, <<"10", 10>>, <<"12", 12>>, <<"13", 13>>, <<"28", 28>>,
      <<"30", 30>>, <<"2025", 2025>> }

IsNumTok(tok) == \E p \in Digits : p[1] = tok
NumOf(tok) == (CHOOSE p \in Digits : p[1] = tok)[2]
TokOf(num) == (CHOOSE p \in Digits : p[2] = num)[1]
IsYearTok(tok) == IsNumTok(tok) /\ NumOf(tok) >= 1000

(* One format element against one token of the string: a directive takes a *)
(* digit run in its range, anything else is a literal and must be equal.   *)
TokMatch(f, tok) ==
    CASE f = "%Y" -> IsYearTok(tok)
      [] f = "%m" -> IsNumTok(tok) /\ ~IsYearTok(tok) /\ NumOf(tok) \in 1..12
      [] f = "%d" -> IsNumTok(tok) /\ ~IsYearTok(tok) /\ NumOf(tok) \in 1..31
      [] f = "%H" -> IsNumTok(tok) /\ ~IsYearTok(tok) /\ NumOf(tok) \in 0..23
      [] f = "%M" -> IsNumTok(tok) /\ ~IsYearTok(tok) /\ NumOf(tok) \in 0..59
      [] f = "%S" -> IsNumTok(tok) /\ ~IsYearTok(tok) /\ NumOf(tok) \in 0..61
      [] OTHER -> f = tok

PrefixMatch(text, fmt) ==
    /\ Len(text) >= Len(fmt)
    /\ \A i \in 1..Len(fmt) : TokMatch(fmt[i], text[i])

(* The value parsed for directive d, or dflt when the format lacks it. *)
FieldOf(text, fmt, d, dflt) ==
    IF \E i \in 1..Len(fmt) : fmt[i] = d
    THEN NumOf(text[CHOOSE i \in 1..Len(fmt) : fmt[i] = d])
    ELSE dflt

(* datetime.strptime(text, fmt): the datetime parsed, or ValueError.  The   *)
(* formats of the model separate their directives by literals, so matching  *)
(* token by token is what the regular expression of strptime does.          *)
strptime(text, fmt) ==
    IF ~PrefixMatch(text, fmt)
    THEN Raise("ValueError", <<"time data does not match format">>)
    ELSE IF Len(text) > Len(fmt)
    THEN Raise("ValueError", <<"unconverted data remains">>)
    ELSE Return(DatetimeV(
            FieldOf(text, fmt, "%Y", 1900) * 10000
              + FieldOf(text, fmt, "%m", 1) * 100
              + FieldOf(text, fmt, "%d", 1),
            FieldOf(text, fmt, "%H", 0) * 3600
              + FieldOf(text, fmt, "%M", 0) * 60
              + FieldOf(text, fmt, "%S", 0)))

(* datetime.date() and datetime.combine(d, datetime.min.time()) *)
DateOf(dt) == DateV(dt.n)
CombineMidnight(d) == DatetimeV(d.n, 0)

IsoDate(code) ==
    << TokOf(code \div 10000), "-", TokOf((code \div 100) % 100), "-",
       TokOf(code % 100) >>
IsoTime(secs) ==
    << TokOf(secs \div 3600), ":", TokOf((secs \div 60) % 60), ":",
       TokOf(secs % 60) >>

(* str(value) *)
PyStr(v) ==
    CASE v.k = "str" -> v
      [] v.k = "list" -> StrV(<<"[1, 2]">>)
      [] v.k = "dict" -> StrV(<<"{'a': 1}">>)
      [] v.k = "date" -> StrV(IsoDate(v.n))
      [] v.k = "datetime" -> StrV(IsoDate(v.n) \o <<" ">> \o IsoTime(v.t))
      [] OTHER -> StrV(<<"repr">>)

(* int(value) and float(value) on the values the code hands them *)
PyInt(v) == IF v.k = "float" THEN IntV(v.n \div 2) ELSE v
PyFloat(v) ==
    CASE v.k = "float" -> Return(v)
      [] v.k = "bigint" ->
            Raise("OverflowError", <<"int too large to convert to float">>)
      [] OTHER -> Return(FloatV(2 * v.n))
FloatIsInteger(v) == v.n % 2 = 0

-----------------------------------------------------------------------------
(* Field *)

FIELD_TYPES ==
    << "char", "text", "integer", "float", "boolean", "date", "datetime",
       "selection", "list", "dict" >>
FIELD_TYPES_SET == {FIELD_TYPES[i] : i \in 1..Len(FIELD_TYPES)}

Unset == <<"unset">>
DefaultDateFormat == <<"%Y", "-", "%m", "-", "%d">>
DefaultDatetimeFormat ==
    <<"%Y", "-", "%m", "-", "%d", " ", "%H", ":", "%M", ":", "%S">>

(* Field.__init__: the object built, selection <<>> standing for None and   *)
(* the two format attributes not yet set.                                   *)
NewField(type, required, default, selection) ==
    [type |-> type, required |-> required, default |-> default,
     selection |-> selection, _date_format |-> Unset,
     _datetime_format |-> Unset]

(* The checks of Field.__init__: the declarations that construct. *)
FieldConstructs(type, selection) ==
    /\ type \in FIELD_TYPES_SET
    /\ IF type = "selection" THEN selection # <<>> ELSE selection = <<>>

(* getattr(self, '_date_format', '%Y-%m-%d') and its datetime twin *)
DateFormatOf(field) ==
    IF field._date_format = Unset THEN DefaultDateFormat
    ELSE field._date_format
DatetimeFormatOf(field) ==
    IF field._datetime_format = Unset THEN DefaultDatetimeFormat
    ELSE field._datetime_format

CoerceChar(field, value) ==
    IF IsInstanceInt(value) \/ IsInstanceFloat(value)
    THEN Raise("ValueError", <<"Expected string, got number">>)
    ELSE IF IsInstanceBool(value)
    THEN Raise("ValueError", <<"Expected string, got boolean">>)
    ELSE Return(PyStr(value))

CoerceInteger(field, value) ==
    IF TypeIsInt(value) THEN Return(PyInt(value))
    ELSE IF IsInstanceFloat(value) /\ FloatIsInteger(value)
    THEN Return(PyInt(value))
    ELSE Raise("ValueError", <<"Expected integer">>)

CoerceFloat(field, value) ==
    IF ~(IsInstanceInt(value) \/ IsInstanceFloat(value))
    THEN Raise("ValueError", <<"Expected float or integer">>)
    ELSE PyFloat(value)

CoerceBoolean(field, value) ==
    IF ~IsInstanceBool(value)
    THEN Raise("ValueError", <<"Expected boolean">>)
    ELSE Return(value)

CoerceDate(field, value) ==
    IF IsInstanceDate(value) THEN Return(value)
    ELSE IF ~IsInstanceStr(value)
    THEN Raise("ValueError", <<"Expected date string">>)
    ELSE LET r == strptime(value.s, DateFormatOf(field))
         IN  IF r.st = "return" THEN Return(DateOf(r.val)) ELSE r

CoerceDatetime_NoFallback(field, value) ==
    IF IsInstanceDatetime(value) THEN Return(value)
    ELSE IF ~IsInstanceStr(value)
    THEN Raise("ValueError", <<"Expected datetime string">>)
    ELSE LET r == strptime(value.s, DatetimeFormatOf(field))
         IN  IF r.st = "return" THEN r
             ELSE Raise("ValueError", <<"Invalid datetime format.">>)

CoerceDatetime(field, value) ==
    IF IsInstanceDatetime(value) THEN Return(value)
    ELSE IF ~IsInstanceStr(value)
    THEN Raise("ValueError", <<"Expected datetime string">>)
    ELSE LET r == strptime(value.s, DatetimeFormatOf(field))
         IN  IF r.st = "return" THEN r
             ELSE LET dt == strptime(value.s, DateFormatOf(field))
                  IN  IF dt.st = "return"
                      THEN Return(CombineMidnight(DateOf(dt.val)))
                      ELSE Raise("ValueError", <<"Invalid datetime format.">>)

CoerceSelection(field, value) ==
    IF ~IsInstanceStr(value)
    THEN Raise("ValueError", <<"Expected string for selection field.">>)
    ELSE IF ~(\E i \in 1..Len(field.selection) : field.selection[i] = value.s)
    THEN Raise("ValueError", <<"Invalid selection value">>)
    ELSE Return(value)

CoerceList(field, value) ==
    IF ~IsInstanceList(value)
    THEN Raise("ValueError", <<"Expected list (ex. [1, 2, 3]).">>)
    ELSE Return(value)

CoerceDict(field, value) ==
    IF ~IsInstanceDict(value)
    THEN Raise("ValueError", <<"Expected dict (JSON object).">>)
    ELSE Return(value)

(* except (ValueError, TypeError) as e: raise ValueError(...); any other    *)
(* exception leaves to_internal_value as it is.                             *)
Rewrap(field, r) ==
    IF r.st \in {"ValueError", "TypeError"}
    THEN Raise("ValueError",
               <<"Invalid value for ", field.type, ": ">> \o r.msg)
    ELSE r

to_internal_value(field, value) ==
    IF value = NoneV THEN Return(field.default)
    ELSE Rewrap(field,
        CASE field.type \in {"char", "text"} -> CoerceChar(field, value)
          [] field.type = "integer" -> CoerceInteger(field, value)
          [] field.type = "float" -> CoerceFloat(field, value)
          [] field.type = "boolean" -> CoerceBoolean(field, value)
          [] field.type = "date" -> CoerceDate(field, value)
          [] field.type = "datetime" -> CoerceDatetime(field, value)
          [] field.type = "selection" -> CoerceSelection(field, value)
          [] field.type = "list" -> CoerceList(field, value)
          [] field.type = "dict" -> CoerceDict(field, value))

-----------------------------------------------------------------------------
(* BaseSerializer *)

Modes == {"create", "write"}

EmptyDict == <<>>
DictSet(d, key, v) ==
    [x \in (DOMAIN d) \cup {key} |-> IF x = key THEN v ELSE d[x]]
(* dict.get(key, dflt) *)
DictGet(d, key, dflt) == IF key \in DOMAIN d THEN d[key] ELSE dflt

NoSession == [cls |-> "none"]
Constructed(s) == sess[s].cls # "none"

(* _collect_fields: the Field attributes of the class, in declaration      *)
(* order, each a reference to the Field object the class body names.       *)
_collect_fields(cdef) == cdef.decl

FieldIds(fields) == {fields[i].fid : i \in 1..Len(fields)}
FieldNames(fields) == {fields[i].name : i \in 1..Len(fields)}

(* The loop at the end of __init__: every collected Field object gets the   *)
(* formats of the class of the session being built.                         *)
AssignFormats(objs, cdef) ==
    [fid \in DOMAIN objs |->
        IF fid \in FieldIds(_collect_fields(cdef))
        THEN [objs[fid] EXCEPT !._date_format = cdef.date_format,
                               !._datetime_format = cdef.datetime_format]
        ELSE objs[fid]]

(* BaseSerializer.__init__(data, mode=mode), mode already checked; data is  *)
(* None or a dict.  ncalls and dropped are history: the number of is_valid  *)
(* calls so far, and whether the last call discarded an entry of the call   *)
(* before it.                                                               *)
NewSession(cname, cdef, data, mode) ==
    [cls |-> cname, mode |-> mode,
     initial_data |-> IF data = NoneV THEN EmptyDict ELSE data,
     validated_data |-> EmptyDict, errors |-> EmptyDict,
     fields |-> _collect_fields(cdef),
     status |-> "new", ret |-> FALSE, ncalls |-> 0, dropped |-> FALSE]

(* getattr(self, f'validate_{name}', None) called on the coerced value: a   *)
(* hook returns the value, returns another value, or raises ValueError.     *)
validator_method(hook, value) ==
    CASE hook = "keep" -> Return(value)
      [] hook = "replace" -> Return(StrV(<<"hooked">>))
      [] hook = "reject" -> Raise("ValueError", <<"rejected by validate hook">>)

RequiredMsg == <<"This field is required.">>

(* raw_value of one loop iteration *)
RawValue(s, name, field) ==
    IF s.mode = "create"
    THEN DictGet(s.initial_data, name, field.default)
    ELSE DictGet(s.initial_data, name, NoneV)

(* One iteration of the loop of is_valid on session record s.  exc is the   *)
(* exception that leaves the iteration, "" when none does.                  *)
ProcessField(s, name, field, hook) ==
    LET in_data == name \in DOMAIN s.initial_data
        has_default == field.default # NoneV
        is_required == field.required
        is_create == s.mode = "create"
    IN  IF ~in_data /\ is_create /\ is_required
        THEN [sess |-> [s EXCEPT !.errors = DictSet(@, name, RequiredMsg)],
              exc |-> ""]
        ELSE IF ~in_data /\ (~has_default \/ ~is_create)
        THEN [sess |-> s, exc |-> ""]
        ELSE LET r == to_internal_value(field, RawValue(s, name, field))
                 h == IF hook = "none" THEN r ELSE validator_method(hook, r.val)
             IN  IF r.st = "ValueError"
                 THEN [sess |-> [s EXCEPT !.errors = DictSet(@, name, r.msg)],
                       exc |-> ""]
                 ELSE IF r.st # "return"
                 THEN [sess |-> s, exc |-> r.st]
                 ELSE IF h.st = "ValueError"
                 THEN [sess |-> [s EXCEPT !.errors = DictSet(@, name, h.msg)],
                       exc |-> ""]
                 ELSE [sess |-> [s EXCEPT !.validated_data =
                                              DictSet(@, name, h.val)],
                       exc |-> ""]

RECURSIVE FieldLoop(_, _, _, _)
FieldLoop(s, objs, hooks, i) ==
    IF i > Len(s.fields)
    THEN [s EXCEPT !.status = "returned", !.ret = (DOMAIN s.errors = {})]
    ELSE LET name == s.fields[i].name
             r == ProcessField(s, name, objs[s.fields[i].fid], hooks[name])
         IN  IF r.exc # ""
             THEN [r.sess EXCEPT !.status = "raised", !.ret = FALSE]
             ELSE FieldLoop(r.sess, objs, hooks, i + 1)

ResetResults_Keep(s) == s

(* self.validated_data = {}; self.errors = {} *)
ResetResults(s) ==
    [s EXCEPT !.validated_data = EmptyDict, !.errors = EmptyDict]

ResultKeys(s) == (DOMAIN s.validated_data) \cup (DOMAIN s.errors)

(* is_valid on session record s, with the Field objects as they are now *)
is_valid(s, objs, hooks) ==
    LET after == FieldLoop(ResetResults(s), objs, hooks, 1)
    IN  [after EXCEPT !.ncalls = s.ncalls + 1,
                      !.dropped = (ResultKeys(s) \ ResultKeys(after) # {})]

-----------------------------------------------------------------------------
(* Bounds and the inputs drawn *)

MaxSessions == 2
MaxCalls == 2

AltDateFormat == <<"%d", "/", "%m", "/", "%Y">>
AltDatetimeFormat == <<"%d", "/", "%m", "/", "%Y", " ", "%H", ":", "%M">>

IsoDateText == <<"2025", "-", "10", "-", "28">>
IsoDatetimeText ==
    <<"2025", "-", "10", "-", "28", " ", "12", ":", "30", ":", "00">>
AltDateText == <<"28", "/", "10", "/", "2025">>
AltDatetimeText == <<"28", "/", "10", "/", "2025", " ", "12", ":", "30">>
BadMonthText == <<"2025", "-", "13", "-", "28">>

SomeDate == DateV(20251028)
SomeDatetime == DatetimeV(20251028, 45000)
Midnight == DatetimeV(20251028, 0)

(* The raw values a coercion is probed with. *)
Values ==
    { NoneV, StrV(<<>>), StrV(<<"x">>), StrV(<<"open">>), StrV(IsoDateText),
      StrV(IsoDatetimeText), StrV(AltDateText), StrV(AltDatetimeText),
      StrV(BadMonthText), IntV(0), IntV(1), IntV(4), BigIntV, FloatV(8),
      FloatV(9), BoolV(TRUE), BoolV(FALSE), ListV, DictV, SomeDate,
      SomeDatetime }

Choices == << <<"open">>, <<"closed">> >>
SelectionOf(type) == IF type = "selection" THEN Choices ELSE <<>>

FormatPairs ==
    { <<Unset, Unset>>, <<DefaultDateFormat, DefaultDatetimeFormat>>,
      <<AltDateFormat, AltDatetimeFormat>> }

(* Fields probed: every kind, with and without a default, never attached to *)
(* a serializer or carrying the formats of one.                             *)
ProbeFields ==
    { [NewField(type, FALSE, dflt, SelectionOf(type))
          EXCEPT !._date_format = fp[1], !._datetime_format = fp[2]] :
        type \in FIELD_TYPES_SET, dflt \in {NoneV, IntV(18)},
        fp \in FormatPairs }

NoProbe == [st |-> "off", field |-> NoneV, value |-> NoneV, out |-> Return(NoneV)]

(* Schemas of the single-session specification: class A declares f (drawn)  *)
(* and then g, a required char field.                                       *)
DrawnTypes == FIELD_TYPES_SET
DrawnDefaults == {NoneV, IntV(0), IntV(18), StrV(<<"x">>), BoolV(FALSE)}
Hooks == {"none", "replace", "reject"}

ClassDef(date_format, datetime_format, decl, hooks) ==
    [date_format |-> date_format, datetime_format |-> datetime_format,
     decl |-> decl, hooks |-> hooks]

SoloDecl == << [name |-> "f", fid |-> 1], [name |-> "g", fid |-> 2] >>

(* Raw values a key of the input may carry. *)
Candidates(key) ==
    CASE key = "f" -> {NoneV, IntV(4), BigIntV, StrV(<<"x">>), FloatV(9)}
      [] key = "g" -> {StrV(<<"Ana">>)}
      [] key = "when" -> {StrV(IsoDateText), StrV(AltDateText)}
      [] key = "age" -> {IntV(4)}
      [] OTHER -> {IntV(1)}

(* The dicts over a set of keys. *)
InputsOver(keys) ==
    UNION { {d \in [K -> UNION {Candidates(key) : key \in K}] :
                \A key \in K : d[key] \in Candidates(key)} :
            K \in SUBSET keys }

(* Raw inputs: the declared names and one undeclared key. *)
SoloInputs == InputsOver({"f", "g", "junk"})
SharedInputs == InputsOver({"when", "age", "junk"})

-----------------------------------------------------------------------------
(* Specifications *)

(* One schema, one session: the life of a session object. *)
Init ==
    /\ \E type \in DrawnTypes, required \in BOOLEAN, dflt \in DrawnDefaults,
          hook \in Hooks :
          /\ FieldConstructs(type, SelectionOf(type))
          /\ fieldObjs = [fid \in {1, 2} |->
                 IF fid = 1
                 THEN NewField(type, required, dflt, SelectionOf(type))
                 ELSE NewField("char", TRUE, NoneV, <<>>)]
          /\ classes = [c \in {"A"} |->
                 ClassDef(DefaultDateFormat, DefaultDatetimeFormat, SoloDecl,
                          [n \in {"f", "g"} |->
                              IF n = "f" THEN hook ELSE "none"])]
    /\ sess = [s \in {1} |-> NoSession]
    /\ probe = NoProbe

(* Two schemas with different formats that declare the same Field object    *)
(* (fid 1) under the name when; A also declares age.                        *)
InitShared ==
    /\ fieldObjs = [fid \in {1, 2} |->
           IF fid = 1 THEN NewField("date", FALSE, NoneV, <<>>)
           ELSE NewField("integer", FALSE, IntV(18), <<>>)]
    /\ classes = [c \in {"A", "B"} |->
           IF c = "A"
           THEN ClassDef(DefaultDateFormat, DefaultDatetimeFormat,
                         << [name |-> "when", fid |-> 1],
                            [name |-> "age", fid |-> 2] >>,
                         [n \in {"when", "age"} |-> "none"])
           ELSE ClassDef(AltDateFormat, AltDatetimeFormat,
                         << [name |-> "when", fid |-> 1] >>,
                         [n \in {"when"} |-> "none"])]
    /\ sess = [s \in 1..MaxSessions |-> NoSession]
    /\ probe = NoProbe

(* A Field on its own and one raw value. *)
InitCoerce ==
    /\ fieldObjs = <<>>
    /\ classes = <<>>
    /\ sess = <<>>
    /\ \E field \in ProbeFields, value \in Values :
          probe = [st |-> "ready", field |-> field, value |-> value,
                   out |-> Return(NoneV)]

(* cls(data, mode=mode) *)
Construct(s, c, data, mode) ==
    /\ ~Constructed(s)
    /\ mode \in Modes
    /\ sess' = [sess EXCEPT ![s] = NewSession(c, classes[c], data, mode)]
    /\ fieldObjs' = AssignFormats(fieldObjs, classes[c])
    /\ UNCHANGED <<classes, probe>>

(* s.is_valid() *)
IsValid(s) ==
    /\ Constructed(s)
    /\ sess[s].ncalls < MaxCalls
    /\ sess' = [sess EXCEPT
                  ![s] = is_valid(sess[s], fieldObjs, classes[sess[s].cls].hooks)]
    /\ UNCHANGED <<fieldObjs, classes, probe>>

(* The caller changes the dict the session holds (initial_data is the       *)
(* caller's dict) between two calls.                                        *)
SetData(s, data) ==
    /\ Constructed(s)
    /\ sess[s].status # "new"
    /\ data # sess[s].initial_data
    /\ sess' = [sess EXCEPT ![s].initial_data = data, ![s].status = "new"]
    /\ UNCHANGED <<fieldObjs, classes, probe>>

(* probe.field.to_internal_value(probe.value) *)
Coerce ==
    /\ probe.st = "ready"
    /\ probe' = [probe EXCEPT !.st = "done",
                              !.out = to_internal_value(probe.field, probe.value)]
    /\ UNCHANGED <<fieldObjs, classes, sess>>

Next ==
    \/ \E s \in DOMAIN sess, c \in DOMAIN classes, mode \in Modes,
          data \in SoloInputs \cup {NoneV} : Construct(s, c, data, mode)
    \/ \E s \in DOMAIN sess : IsValid(s)
    \/ \E s \in DOMAIN sess, data \in SoloInputs : SetData(s, data)

NextShared ==
    \/ \E s \in DOMAIN sess, c \in DOMAIN classes, mode \in Modes,
          data \in SharedInputs : Construct(s, c, data, mode)
    \/ \E s \in DOMAIN sess : IsValid(s)

NextCoerce == Coerce

Spec == Init /\ [][Next]_vars
SpecShared == InitShared /\ [][NextShared]_vars
SpecCoerce == InitCoerce /\ [][NextCoerce]_vars

-----------------------------------------------------------------------------
(* Properties *)

(* A call of is_valid has ended on s and the input is as that call saw it. *)
Called(s) == Constructed(s) /\ sess[s].status # "new"

NameAt(s, i) == sess[s].fields[i].name
FieldAt(s, i) == fieldObjs[sess[s].fields[i].fid]
HookAt(s, i) == classes[sess[s].cls].hooks[NameAt(s, i)]

(* What a session built now from the same class, input and mode gives when  *)
(* validated at once.                                                       *)
FreshRun(s) ==
    LET cdef == classes[sess[s].cls]
    IN  is_valid(NewSession(sess[s].cls, cdef, sess[s].initial_data, sess[s].mode),
                 AssignFormats(fieldObjs, cdef), cdef.hooks)

(* Python's == on two values: numbers compare by value across int, float    *)
(* and bool.                                                                *)
IsNumber(v) == v.k \in {"int", "float", "bool"}
Halves(v) == IF v.k = "float" THEN v.n ELSE 2 * v.n
PyEq(a, b) == IF IsNumber(a) /\ IsNumber(b) THEN Halves(a) = Halves(b) ELSE a = b

RequiredRule(s, i) ==
    LET name == NameAt(s, i)
    IN  (FieldAt(s, i).required /\ name \notin DOMAIN sess[s].initial_data) =>
            IF sess[s].mode = "create"
            THEN /\ name \in DOMAIN sess[s].errors
                 /\ sess[s].errors[name] = RequiredMsg
                 /\ name \notin DOMAIN sess[s].validated_data
            ELSE name \notin ResultKeys(sess[s])

(* C1: after is_valid, every required field whose name is not a key of the  *)
(* input has errors[name] = "This field is required." and no cleaned entry  *)
(* in mode create, and is in neither mapping in mode write.                 *)
C1_RequiredMissing ==
    \A s \in DOMAIN sess : Called(s) =>
        \A i \in 1..Len(sess[s].fields) : RequiredRule(s, i)

(* C1, for the calls that return: the rule holds of every declared field.   *)
C1_WhenReturned ==
    \A s \in DOMAIN sess : (Called(s) /\ sess[s].status = "returned") =>
        \A i \in 1..Len(sess[s].fields) : RequiredRule(s, i)

(* C2: in mode create, every field without a hook that is not required,     *)
(* has a default other than None and is missing from the input ends with    *)
(* cleaned[name] equal to the default and no error, whatever the default.   *)
C2_DefaultFills ==
    \A s \in DOMAIN sess : (Called(s) /\ sess[s].mode = "create") =>
        \A i \in 1..Len(sess[s].fields) :
            LET name == NameAt(s, i)
                field == FieldAt(s, i)
            IN  ( /\ ~field.required
                  /\ field.default # NoneV
                  /\ HookAt(s, i) = "none"
                  /\ name \notin DOMAIN sess[s].initial_data ) =>
                    /\ name \in DOMAIN sess[s].validated_data
                    /\ PyEq(sess[s].validated_data[name], field.default)
                    /\ name \notin DOMAIN sess[s].errors

(* C3: no exception leaves is_valid: the call returns a boolean and every   *)
(* declared field the input names has been processed, a failure being a     *)
(* message under errors[name].                                              *)
C3_NoException ==
    \A s \in DOMAIN sess : Called(s) =>
        /\ sess[s].status = "returned"
        /\ sess[s].ret \in BOOLEAN
        /\ \A i \in 1..Len(sess[s].fields) :
              NameAt(s, i) \in DOMAIN sess[s].initial_data =>
                  NameAt(s, i) \in ResultKeys(sess[s])

(* C4: in mode write a cleaned entry exists only for a key of the input and *)
(* comes from the value stored under it, never from the default: a stored   *)
(* null stays null (fields without a hook).                                 *)
C4_WriteNeverDefaults ==
    \A s \in DOMAIN sess : (Called(s) /\ sess[s].mode = "write") =>
        \A i \in 1..Len(sess[s].fields) :
            LET name == NameAt(s, i)
            IN  name \in DOMAIN sess[s].validated_data =>
                    /\ name \in DOMAIN sess[s].initial_data
                    /\ (HookAt(s, i) = "none"
                          /\ sess[s].initial_data[name] = NoneV) =>
                            sess[s].validated_data[name] = NoneV

(* C5: whatever other sessions were built or validated, of the same schema  *)
(* or of another one declaring the same Field object, the flag, the cleaned *)
(* data and the errors of a session are those it gives when run alone, its  *)
(* fields coerced with the formats of its own schema.                       *)
C5_SessionsIsolated ==
    \A s \in DOMAIN sess : Called(s) =>
        LET alone == FreshRun(s)
        IN  /\ sess[s].status = alone.status
            /\ sess[s].ret = alone.ret
            /\ sess[s].validated_data = alone.validated_data
            /\ sess[s].errors = alone.errors

(* C6: after any sequence of is_valid calls on a session, the input changed *)
(* between them or not, the flag, the cleaned data and the errors are those *)
(* of a newly built session with the current input and the same mode.       *)
C6_FreshPass ==
    \A s \in DOMAIN sess : Called(s) =>
        LET fresh == FreshRun(s)
        IN  /\ sess[s].status = fresh.status
            /\ sess[s].ret = fresh.ret
            /\ sess[s].validated_data = fresh.validated_data
            /\ sess[s].errors = fresh.errors

(* C6 happens: a second call on changed input has discarded an entry of     *)
(* the first.                                                               *)
C6_Witness ==
    \E s \in DOMAIN sess :
        Called(s) /\ sess[s].ncalls >= 2 /\ sess[s].dropped

ProbeDone(types) == probe.st = "done" /\ probe.field.type \in types
                        /\ probe.value # NoneV

(* C7: a char or text field returns every string unchanged and fails with   *)
(* a validation error on every other non-null value.                        *)
C7_CharStringsOnly ==
    ProbeDone({"char", "text"}) =>
        IF IsInstanceStr(probe.value)
        THEN probe.out = Return(probe.value)
        ELSE probe.out.st = "ValueError"

(* C8: integer takes an int or a float without fraction (4.0 gives 4) and   *)
(* nothing else; float takes an int or a float and nothing else, booleans   *)
(* rejected; boolean takes true and false only.  (An int beyond the range   *)
(* of a float is not asked to convert.)                                     *)
C8_NumericShapes ==
    /\ ProbeDone({"integer"}) =>
          CASE TypeIsInt(probe.value) -> probe.out = Return(probe.value)
            [] probe.value.k = "float" /\ probe.value.n % 2 = 0 ->
                  probe.out = Return(IntV(probe.value.n \div 2))
            [] OTHER -> probe.out.st = "ValueError"
    /\ ProbeDone({"float"}) =>
          CASE probe.value.k \in {"int", "float"} ->
                  /\ probe.out.st = "return"
                  /\ probe.out.val.k = "float"
                  /\ PyEq(probe.out.val, probe.value)
            [] probe.value.k = "bigint" -> TRUE
            [] OTHER -> probe.out.st = "ValueError"
    /\ ProbeDone({"boolean"}) =>
          IF probe.value.k = "bool"
          THEN probe.out = Return(probe.value)
          ELSE probe.out.st = "ValueError"

(* C9: after is_valid the keys of cleaned and of errors are disjoint and    *)
(* declared names, every declared name the input holds is in exactly one of *)
(* the two, and the flag returned is true exactly when errors is empty.     *)
C9_Partition ==
    \A s \in DOMAIN sess : Called(s) =>
        /\ (DOMAIN sess[s].validated_data) \cap (DOMAIN sess[s].errors) = {}
        /\ ResultKeys(sess[s]) \subseteq FieldNames(sess[s].fields)
        /\ \A i \in 1..Len(sess[s].fields) :
              NameAt(s, i) \in DOMAIN sess[s].initial_data =>
                  NameAt(s, i) \in ResultKeys(sess[s])
        /\ sess[s].status = "returned"
        /\ sess[s].ret = (DOMAIN sess[s].errors = {})

(* C9, for the calls that return. *)
C9_WhenReturned ==
    \A s \in DOMAIN sess : (Called(s) /\ sess[s].status = "returned") =>
        /\ (DOMAIN sess[s].validated_data) \cap (DOMAIN sess[s].errors) = {}
        /\ ResultKeys(sess[s]) \subseteq FieldNames(sess[s].fields)
        /\ \A i \in 1..Len(sess[s].fields) :
              NameAt(s, i) \in DOMAIN sess[s].initial_data =>
                  NameAt(s, i) \in ResultKeys(sess[s])
        /\ sess[s].ret = (DOMAIN sess[s].errors = {})

(* The string matches the format: written out for the strings and formats   *)
(* of the model, from what datetime.strptime accepts.                       *)
Matches(text, fmt) ==
    \/ fmt = DefaultDatetimeFormat /\ text = IsoDatetimeText
    \/ fmt = DefaultDateFormat /\ text = IsoDateText
    \/ fmt = AltDatetimeFormat /\ text = AltDatetimeText
    \/ fmt = AltDateFormat /\ text = AltDateText

(* C10: a datetime field given a string takes the instant when the string   *)
(* matches the datetime format, midnight of the date when it matches the    *)
(* date format only ("2025-10-28" with the default formats), and fails with *)
(* a validation error when it matches neither.                              *)
C10_DatetimeFallback ==
    (ProbeDone({"datetime"}) /\ IsInstanceStr(probe.value)) =>
        LET text == probe.value.s
        IN  CASE Matches(text, DatetimeFormatOf(probe.field)) ->
                    probe.out = Return(SomeDatetime)
              [] Matches(text, DateFormatOf(probe.field)) ->
                    probe.out = Return(Midnight)
              [] OTHER ->
                    /\ probe.out.st = "ValueError"
                    /\ probe.out.msg =
                         <<"Invalid value for ", "datetime", ": ",
                           "Invalid datetime format.">>

(* C10 happens: "2025-10-28" under the default formats gave midnight. *)
C10_Witness ==
    /\ probe.st = "done"
    /\ probe.field.type = "datetime"
    /\ DatetimeFormatOf(probe.field) = DefaultDatetimeFormat
    /\ DateFormatOf(probe.field) = DefaultDateFormat
    /\ probe.value = StrV(IsoDateText)
    /\ probe.out = Return(Midnight)

====
